---- MODULE Spec2Model ----
(***************************************************************************)
(* State-machine model of the Pac-Man engine in src/main.rs (MainState,    *)
(* Ghost and the ggez EventHandler callbacks update, key_down_event and    *)
(* mouse_button_down_event).                                               *)
(*                                                                         *)
(* Numbers.  Every f32 of the program is a multiple of 0.5 (positions) or  *)
(* of the frame time (timers), so the model uses fixed point integers:     *)
(* a length of 1 px is UNIT model units and a time of 1 s is SEC model     *)
(* units.  Distances are compared by their squares, which is exact for     *)
(* these values.                                                           *)
(***************************************************************************)
EXTENDS Integers, Sequences, FiniteSets, TLC

UNIT == 2
SEC == 200

CELL_SIZE == 30 * UNIT
PACMAN_SIZE == 25 * UNIT
DOT_SIZE == 6 * UNIT
GHOST_SIZE == 25 * UNIT
MOVEMENT_SPEED == 1 * UNIT
GHOST_SPEED == UNIT \div 2
THIN_WALL_SIZE == 30 * UNIT
POWER_PELLET_SIZE == 15 * UNIT
POWER_PELLET_DURATION == 5 * SEC
VULNERABLE_GHOST_SPEED == UNIT \div 2
\* Ghost::reset_position: confused_timer = 3.0
CONFUSED_DURATION == 3 * SEC
\* MainState::new / reset_game: lives: 3
START_LIVES == 3
\* score += 200 for a capture, score += 10 for a dot
GHOST_SCORE == 200
DOT_SCORE == 10

MAP_STR == <<
    <<"W","W","W","W","W","W","W","W","W","W","W","W","W","W","W","W","W","W","W","W">>,
    <<"W",".",".",".",".",".",".",".",".","W",".",".",".",".",".",".",".",".",".","W">>,
    <<"W",".","W","W",".","W","W","W",".","W",".","W","W","W",".","W","W",".","W","W">>,
    <<"W",".",".",".",".",".",".",".",".",".",".",".",".",".",".",".",".",".",".","W">>,
    <<"W",".","W","W",".","W",".","W","W","W","W","W",".","W",".","W","W",".","W","W">>,
    <<"W",".",".",".",".","W",".",".",".","W",".",".",".","W",".",".",".",".","W","W">>,
    <<"W","W","W","W",".","W","W","W",".","W",".","W","W","W",".","W","W","W","W","W">>,
    <<" "," "," ","W",".","W",".",".",".",".",".",".",".","W",".","W"," "," "," ","W">>,
    <<"W","W","W","W",".","W",".","W","W"," ","W","W",".","W",".","W","W","W","W","W">>,
    <<"W",".",".",".",".",".",".","."," ","G","G"," ",".",".",".",".",".",".","W">>,
    <<"W","W","W","W",".","W",".","W","W","W","W","W",".","W",".","W","W","W","W","W">>,
    <<" "," "," ","W",".","W",".",".",".",".",".",".",".","W",".",".",".",".",".","W">>,
    <<"W","W","W","W",".","W",".","W","W","W","W","W",".","W",".","W","W","W","W","W">>,
    <<"W",".",".",".",".",".",".",".",".","W",".",".",".",".",".",".",".",".","W","W">>,
    <<"W",".","W","W",".","W","W","W",".","W",".","W","W","W",".","W","W",".","W","W">>,
    <<"W",".",".","W",".",".",".",".",".","P",".",".",".",".",".","W",".",".","W","W">>,
    <<"W","W",".","W",".","W",".","W","W","W","W","W",".","W",".","W",".","W","W","W">>,
    <<"W",".",".",".",".","W",".",".",".","W",".",".",".","W",".",".",".",".","W","W">>,
    <<"W",".","W","W","W","W","W","W",".","W",".","W","W","W","W","W","W",".",".","W">>,
    <<"W","W","W","W","W","W","W","W","W","W","W","W","W","W","W","W","W","W","W","W">>
>>

Directions == <<"Up", "Down", "Left", "Right">>
Direction == {"Up", "Down", "Left", "Right", "None"}

(***************************************************************************)
(* Geometry.                                                               *)
(***************************************************************************)
\* f32::round: nearest integer, halves away from zero, of n / d (d > 0).
Round(n, d) ==
    IF n >= 0 THEN (2 * n + d) \div (2 * d)
    ELSE -((2 * (-n) + d) \div (2 * d))

\* ggez graphics::Rect::overlaps (edges included).
Overlaps(ax, ay, aw, ah, bx, by, bw, bh) ==
    /\ ax <= bx + bw
    /\ ax + aw >= bx
    /\ ay <= by + bh
    /\ ay + ah >= by

\* The character of cell (c, r) of map m; rows may be ragged.
CellAt(m, c, r) ==
    IF r >= 0 /\ r < Len(m) /\ c >= 0 /\ c < Len(m[r + 1])
    THEN m[r + 1][c + 1]
    ELSE " "

\* MainState::new: every 'W' pushes Rect(pos_x, pos_y, THIN_WALL_SIZE, THIN_WALL_SIZE).
IsWall(c, r) == CellAt(MAP_STR, c, r) = "W"

\* walls.iter().any(|wall| wall.overlaps(&Rect::new(x, y, size, size)))
HitsWall(x, y, size) ==
    \E c \in ((x - THIN_WALL_SIZE) \div CELL_SIZE) .. ((x + size) \div CELL_SIZE) :
        \E r \in ((y - THIN_WALL_SIZE) \div CELL_SIZE) .. ((y + size) \div CELL_SIZE) :
            /\ IsWall(c, r)
            /\ Overlaps(c * CELL_SIZE, r * CELL_SIZE, THIN_WALL_SIZE, THIN_WALL_SIZE,
                        x, y, size, size)

\* Squared distance between two points.
Dist2(ax, ay, bx, by) == (ax - bx) * (ax - bx) + (ay - by) * (ay - by)

\* Largest k with k * k <= n (for the truncation "(distance * 100.0) as i32").
RECURSIVE ISqrtIn(_, _, _)
ISqrtIn(n, lo, hi) ==
    IF lo >= hi THEN lo
    ELSE LET mid == (lo + hi + 1) \div 2
         IN  IF mid * mid <= n THEN ISqrtIn(n, mid, hi) ELSE ISqrtIn(n, lo, mid - 1)
ISqrt(n) == ISqrtIn(n, 0, 4000)

\* Largest j in lo .. hi with 2 * a * j + j * j <= rest (lo qualifies).
RECURSIVE FractionIn(_, _, _, _)
FractionIn(a, rest, lo, hi) ==
    IF lo >= hi THEN lo
    ELSE LET mid == (lo + hi + 1) \div 2
         IN  IF 2 * a * mid + mid * mid <= rest
             THEN FractionIn(a, rest, mid, hi)
             ELSE FractionIn(a, rest, lo, mid - 1)

\* (distance * 100.0) as i32 for a distance whose square is v model units:
\* floor(100 * sqrt(v) / UNIT), computed without leaving 32 bits.
DistanceKey(v) ==
    LET k == ISqrt(v)
        m == 100 \div UNIT
    IN  m * k + FractionIn(m * k, m * m * (v - k * k), 0, m - 1)

Delta(dir, speed) ==
    CASE dir = "Up" -> <<0, -speed>>
      [] dir = "Down" -> <<0, speed>>
      [] dir = "Left" -> <<-speed, 0>>
      [] dir = "Right" -> <<speed, 0>>
      [] OTHER -> <<0, 0>>

(***************************************************************************)
(* Ghost.                                                                  *)
(***************************************************************************)
\* Ghost::new
GhostNew(x, y, color) ==
    [x |-> x, y |-> y, direction |-> "Left", color |-> color,
     target_x |-> x, target_y |-> y, is_vulnerable |-> FALSE,
     respawn_timer |-> 0, spawn_position |-> <<x, y>>, confused_timer |-> 0]

\* reset_position without the reset of is_vulnerable.
reset_position_still_vulnerable(g) ==
    [g EXCEPT !.x = g.spawn_position[1], !.y = g.spawn_position[2],
              !.respawn_timer = 0,
              !.direction = "Left", !.confused_timer = CONFUSED_DURATION]

\* Ghost::reset_position
reset_position(g) ==
    [g EXCEPT !.x = g.spawn_position[1], !.y = g.spawn_position[2],
              !.is_vulnerable = FALSE, !.respawn_timer = 0,
              !.direction = "Left", !.confused_timer = CONFUSED_DURATION]

\* The outcomes of the random draws of one call of Ghost::update:
\*   b1      the first gen_bool (0.1 when confused, 0.05 otherwise)
\*   b2      gen_bool(0.6), drawn only when not confused and b1
\*   tx, ty  the two gen_range(0.0..600.0) values of a random target
\*   u       the gen_range(0..valid_directions.len()) draw, before reduction
NoDraw == [b1 |-> FALSE, b2 |-> FALSE, tx |-> 0, ty |-> 0, u |-> 0]

\* Ghost::update, target selection
GhostTarget(g, pacman_x, pacman_y, d) ==
    IF g.confused_timer > 0
    THEN IF d.b1 THEN [g EXCEPT !.target_x = d.tx, !.target_y = d.ty] ELSE g
    ELSE IF d.b1
         THEN IF d.b2 THEN [g EXCEPT !.target_x = d.tx, !.target_y = d.ty]
              ELSE [g EXCEPT !.target_x = pacman_x, !.target_y = pacman_y]
         ELSE g

GhostProbeSpeed(g) == IF g.is_vulnerable THEN VULNERABLE_GHOST_SPEED ELSE GHOST_SPEED

\* Ghost::update, valid_directions (in the order Up, Down, Left, Right)
ValidDirections(g) ==
    SelectSeq(Directions,
              LAMBDA dir : ~HitsWall(g.x + Delta(dir, GhostProbeSpeed(g))[1],
                                     g.y + Delta(dir, GhostProbeSpeed(g))[2],
                                     GHOST_SIZE))

\* The min_by_key key of a direction: (distance * 100.0) as i32 after a unit step
DirectionKey(g, dir) ==
    DistanceKey(Dist2(g.x + Delta(dir, UNIT)[1], g.y + Delta(dir, UNIT)[2],
                      g.target_x, g.target_y))

\* Iterator::min_by_key: the first of the elements with the least key; best is
\* the choice among valid[1 .. i-1] and bestKey its key.
RECURSIVE MinByKeyFrom(_, _, _, _, _)
MinByKeyFrom(g, valid, i, best, bestKey) ==
    IF i > Len(valid) THEN best
    ELSE LET k == DirectionKey(g, valid[i])
         IN  IF k < bestKey
             THEN MinByKeyFrom(g, valid, i + 1, valid[i], k)
             ELSE MinByKeyFrom(g, valid, i + 1, best, bestKey)

MinByKey(g, valid) == MinByKeyFrom(g, valid, 2, valid[1], DirectionKey(g, valid[1]))

\* Ghost::update, direction selection
GhostDirection(g, d) ==
    LET valid == ValidDirections(g)
    IN  IF Len(valid) = 0 THEN g
        ELSE IF g.confused_timer > 0
             THEN [g EXCEPT !.direction = valid[(d.u % Len(valid)) + 1]]
             ELSE [g EXCEPT !.direction = MinByKey(g, valid)]

\* The move of Ghost::update without the test of the walls.
GhostMoveThroughWalls(g) ==
    [g EXCEPT !.x = g.x + Delta(g.direction, GHOST_SPEED)[1],
              !.y = g.y + Delta(g.direction, GHOST_SPEED)[2]]

\* Ghost::update, the move with GHOST_SPEED
GhostMove(g) ==
    LET nx == g.x + Delta(g.direction, GHOST_SPEED)[1]
        ny == g.y + Delta(g.direction, GHOST_SPEED)[2]
    IN  IF ~HitsWall(nx, ny, GHOST_SIZE) THEN [g EXCEPT !.x = nx, !.y = ny] ELSE g

\* Ghost::update
GhostUpdate(g, pacman_x, pacman_y, d) ==
    GhostMove(GhostDirection(GhostTarget(g, pacman_x, pacman_y, d), d))

(***************************************************************************)
(* MainState: construction and reset.                                      *)
(***************************************************************************)
\* The cells of map m in the order of "for (y, row) ... for (x, cell) ...".
RECURSIVE ScanFrom(_, _)
ScanFrom(m, r) ==
    IF r >= Len(m) THEN <<>>
    ELSE [c \in 1 .. Len(m[r + 1]) |-> <<c - 1, r>>] \o ScanFrom(m, r + 1)
ScanCells(m) == ScanFrom(m, 0)

CellsOf(m, ch) == SelectSeq(ScanCells(m), LAMBDA p : CellAt(m, p[1], p[2]) = ch)

MapWidth(m) == Len(m[1])
MapHeight(m) == Len(m)

\* The four corner power pellets pushed by MainState::new and reset_game.
CornerPellets(m) ==
    LET lo == (3 * CELL_SIZE) \div 2
        hx == CELL_SIZE * MapWidth(m) - (3 * CELL_SIZE) \div 2
        hy == CELL_SIZE * MapHeight(m) - (3 * CELL_SIZE) \div 2
    IN  {<<lo, lo>>, <<hx, lo>>, <<lo, hy>>, <<hx, hy>>}

\* One dot in the middle of every '.' cell.
MapDots(m) ==
    LET ds == CellsOf(m, ".")
    IN  {<<ds[i][1] * CELL_SIZE + CELL_SIZE \div 2, ds[i][2] * CELL_SIZE + CELL_SIZE \div 2>> :
            i \in 1 .. Len(ds)}

\* MainState::new: the ghosts pushed for the 'G' cells gs[i..], after acc.
RECURSIVE NewGhostsFrom(_, _, _)
NewGhostsFrom(gs, i, acc) ==
    IF i > Len(gs) THEN acc
    ELSE LET px == gs[i][1] * CELL_SIZE
             py == gs[i][2] * CELL_SIZE
             a1 == Append(acc, GhostNew(px, py, "RED"))
             a2 == IF Len(a1) > 1 THEN Append(a1, GhostNew(px, py, "CYAN")) ELSE a1
             a3 == IF Len(a2) > 2 THEN Append(a2, GhostNew(px, py, "MAGENTA")) ELSE a2
         IN  NewGhostsFrom(gs, i + 1, a3)

\* MainState::new: three ghosts at the centre of the map, then those of the 'G' cells.
NewGhosts(m) ==
    LET center_x == (MapWidth(m) \div 2) * CELL_SIZE
        center_y == (MapHeight(m) \div 2) * CELL_SIZE
    IN  NewGhostsFrom(CellsOf(m, "G"), 1,
                      <<GhostNew(center_x, center_y, "RED"),
                        GhostNew(center_x, center_y, "CYAN"),
                        GhostNew(center_x, center_y, "MAGENTA")>>)

PacmanOffset == (CELL_SIZE - PACMAN_SIZE) \div 2
GhostOffset == (CELL_SIZE - GHOST_SIZE) \div 2

\* MainState::new: pacman_start is (0, 0) unless a 'P' cell sets it; the last one wins.
NewPacmanStart(m) ==
    LET ps == CellsOf(m, "P")
    IN  IF Len(ps) = 0 THEN <<0, 0>>
        ELSE <<ps[Len(ps)][1] * CELL_SIZE + PacmanOffset,
               ps[Len(ps)][2] * CELL_SIZE + PacmanOffset>>

\* reset_game and reset_pacman_position: "break" leaves the row only, so the
\* first 'P' of the last row that has one wins; the position stays if there is none.
RowsWithP(m) == {r \in 0 .. (Len(m) - 1) : \E c \in 0 .. (Len(m[r + 1]) - 1) : CellAt(m, c, r) = "P"}
MaxOf(S) == CHOOSE x \in S : \A y \in S : y <= x
MinOf(S) == CHOOSE x \in S : \A y \in S : x <= y
ResetPacmanStart(m, old) ==
    IF RowsWithP(m) = {} THEN old
    ELSE LET r == MaxOf(RowsWithP(m))
             c == MinOf({k \in 0 .. (Len(m[r + 1]) - 1) : CellAt(m, k, r) = "P"})
         IN  <<c * CELL_SIZE + PacmanOffset, r * CELL_SIZE + PacmanOffset>>

\* reset_game: three ghosts at the first 'G' cell, centred in it; none without 'G'.
ResetGhosts(m) ==
    LET gs == CellsOf(m, "G")
    IN  IF Len(gs) = 0 THEN <<>>
        ELSE LET px == gs[1][1] * CELL_SIZE + GhostOffset
                 py == gs[1][2] * CELL_SIZE + GhostOffset
             IN  <<GhostNew(px, py, "RED"), GhostNew(px, py, "CYAN"),
                   GhostNew(px, py, "MAGENTA")>>

\* What the last handler did, for the properties (not program state).
NoEvent ==
    [op |-> "init", expired |-> FALSE, pellet |-> FALSE, zero |-> FALSE,
     zero_pass |-> "", zero_pos |-> <<>>, captures |-> <<>>, lost |-> 0, snapped |-> FALSE,
     respawned |-> FALSE, turned |-> FALSE, eaten |-> {}, began |-> <<>>,
     hunted |-> <<>>, stepped |-> <<>>]

\* MainState::new
New(m) ==
    [pacman_x |-> NewPacmanStart(m)[1], pacman_y |-> NewPacmanStart(m)[2],
     current_direction |-> "None", requested_direction |-> "None",
     dots |-> MapDots(m), ghosts |-> NewGhosts(m), score |-> 0, lives |-> START_LIVES,
     game_over |-> FALSE, show_menu |-> FALSE, power_pellets |-> CornerPellets(m),
     power_pellet_active |-> FALSE, power_pellet_timer |-> 0, ev |-> NoEvent]

\* What reset_game and reset_pacman_position read from MAP_STR.
PACMAN_START == ResetPacmanStart(MAP_STR, <<0, 0>>)
MAP_DOTS == MapDots(MAP_STR)
MAP_PELLETS == CornerPellets(MAP_STR)
RESET_GHOSTS == ResetGhosts(MAP_STR)

\* reset_game without the reset of the power-pellet window.
reset_game_keeping_window(s) ==
    [s EXCEPT !.pacman_x = PACMAN_START[1],
              !.pacman_y = PACMAN_START[2],
              !.ghosts = RESET_GHOSTS,
              !.power_pellets = MAP_PELLETS,
              !.score = 0, !.lives = START_LIVES,
              !.game_over = FALSE, !.show_menu = FALSE,
              !.current_direction = "None", !.requested_direction = "None",
              !.dots = MAP_DOTS]

\* MainState::reset_game (MAP_STR has a 'P' cell, so the position is always set)
reset_game(s) ==
    [s EXCEPT !.pacman_x = PACMAN_START[1],
              !.pacman_y = PACMAN_START[2],
              !.ghosts = RESET_GHOSTS,
              !.power_pellets = MAP_PELLETS,
              !.score = 0, !.lives = START_LIVES,
              !.game_over = FALSE, !.show_menu = FALSE,
              !.current_direction = "None", !.requested_direction = "None",
              !.power_pellet_active = FALSE, !.power_pellet_timer = 0,
              !.dots = MAP_DOTS]

\* MainState::reset_pacman_position
reset_pacman_position(s) ==
    [s EXCEPT !.pacman_x = PACMAN_START[1],
              !.pacman_y = PACMAN_START[2],
              !.current_direction = "None", !.requested_direction = "None"]

(***************************************************************************)
(* MainState: movement helpers.                                            *)
(***************************************************************************)
\* can_move probing the cell's origin instead of the centred rectangle.
can_move_no_offset(s, direction) ==
    LET test_x == Round(s.pacman_x, CELL_SIZE) * CELL_SIZE + Delta(direction, CELL_SIZE)[1]
        test_y == Round(s.pacman_y, CELL_SIZE) * CELL_SIZE + Delta(direction, CELL_SIZE)[2]
    IN  ~HitsWall(test_x, test_y, PACMAN_SIZE)

\* MainState::can_move
can_move(s, direction) ==
    LET test_x == Round(s.pacman_x, CELL_SIZE) * CELL_SIZE
                    + Delta(direction, CELL_SIZE)[1] + PacmanOffset
        test_y == Round(s.pacman_y, CELL_SIZE) * CELL_SIZE
                    + Delta(direction, CELL_SIZE)[2] + PacmanOffset
    IN  ~HitsWall(test_x, test_y, PACMAN_SIZE)

\* snap_to_grid without the offset that centres the player in the cell.
snap_to_cell(s) ==
    [s EXCEPT !.pacman_x = Round(s.pacman_x, CELL_SIZE) * CELL_SIZE,
              !.pacman_y = Round(s.pacman_y, CELL_SIZE) * CELL_SIZE]

\* MainState::snap_to_grid
snap_to_grid(s) ==
    [s EXCEPT !.pacman_x = Round(s.pacman_x, CELL_SIZE) * CELL_SIZE + PacmanOffset,
              !.pacman_y = Round(s.pacman_y, CELL_SIZE) * CELL_SIZE + PacmanOffset]

Abs(n) == IF n < 0 THEN -n ELSE n

\* MainState::is_at_grid_center (the "< 1.0" is one pixel)
is_at_grid_center(s) ==
    LET center_x == Round(s.pacman_x - PacmanOffset, CELL_SIZE) * CELL_SIZE + PacmanOffset
        center_y == Round(s.pacman_y - PacmanOffset, CELL_SIZE) * CELL_SIZE + PacmanOffset
    IN  Abs(s.pacman_x - center_x) < 1 * UNIT /\ Abs(s.pacman_y - center_y) < 1 * UNIT

PacmanCenterX(s) == s.pacman_x + PACMAN_SIZE \div 2
PacmanCenterY(s) == s.pacman_y + PACMAN_SIZE \div 2

\* distance < (PACMAN_SIZE + GHOST_SIZE) / 2.0 between the two centres
GhostTouches(g, px, py) ==
    LET r == (PACMAN_SIZE + GHOST_SIZE) \div 2
    IN  Dist2(px + PACMAN_SIZE \div 2, py + PACMAN_SIZE \div 2,
              g.x + GHOST_SIZE \div 2, g.y + GHOST_SIZE \div 2) < r * r

\* distance < PACMAN_SIZE / 2.0 + POWER_PELLET_SIZE / 2.0
PelletInReach(s, pellet) ==
    LET r == PACMAN_SIZE \div 2 + POWER_PELLET_SIZE \div 2
    IN  Dist2(PacmanCenterX(s), PacmanCenterY(s), pellet[1], pellet[2]) < r * r

\* distance < PACMAN_SIZE / 2.0 + DOT_SIZE / 2.0
DotInReach(s, dot) ==
    LET r == PACMAN_SIZE \div 2 + DOT_SIZE \div 2
    IN  Dist2(PacmanCenterX(s), PacmanCenterY(s), dot[1], dot[2]) < r * r

\* The positions of the player and of every ghost.
Positions(s) ==
    <<s.pacman_x, s.pacman_y, [i \in 1 .. Len(s.ghosts) |-> <<s.ghosts[i].x, s.ghosts[i].y>>]>>

(***************************************************************************)
(* EventHandler::update, step by step.                                     *)
(***************************************************************************)
\* PowerTimerStep that leaves the ghosts' flags alone when the timer runs out.
PowerTimerStepKeepingFlags(s, dt) ==
    IF s.power_pellet_active
    THEN LET t == s.power_pellet_timer - dt
         IN  IF t <= 0
             THEN [s EXCEPT !.power_pellet_timer = t,
                            !.power_pellet_active = FALSE,
                            !.ev.expired = TRUE]
             ELSE [s EXCEPT !.power_pellet_timer = t]
    ELSE s

\* PowerTimerStep with "< 0.0" for "<= 0.0".
PowerTimerStepLate(s, dt) ==
    IF s.power_pellet_active
    THEN LET t == s.power_pellet_timer - dt
         IN  IF t < 0
             THEN [s EXCEPT !.power_pellet_timer = t,
                            !.power_pellet_active = FALSE,
                            !.ghosts = [i \in 1 .. Len(s.ghosts) |->
                                          [s.ghosts[i] EXCEPT !.is_vulnerable = FALSE]],
                            !.ev.expired = TRUE]
             ELSE [s EXCEPT !.power_pellet_timer = t]
    ELSE s

\* update: "update power pellet timer"
PowerTimerStep(s, dt) ==
    IF s.power_pellet_active
    THEN LET t == s.power_pellet_timer - dt
         IN  IF t <= 0
             THEN [s EXCEPT !.power_pellet_timer = t,
                            !.power_pellet_active = FALSE,
                            !.ghosts = [i \in 1 .. Len(s.ghosts) |->
                                          [s.ghosts[i] EXCEPT !.is_vulnerable = FALSE]],
                            !.ev.expired = TRUE]
             ELSE [s EXCEPT !.power_pellet_timer = t]
    ELSE s

\* update: "update ghost timers"
GhostTimer(g, dt) ==
    LET c == IF g.confused_timer > 0 THEN g.confused_timer - dt ELSE g.confused_timer
        r == IF g.respawn_timer > 0 THEN g.respawn_timer - dt ELSE g.respawn_timer
    IN  [g EXCEPT !.confused_timer = c, !.respawn_timer = r]

GhostTimerStep(s, dt) ==
    [s EXCEPT !.ghosts = [i \in 1 .. Len(s.ghosts) |-> GhostTimer(s.ghosts[i], dt)]]

\* update: "check power pellet collection" (power_pellets.retain)
PowerPelletStep(s) ==
    LET hit == {p \in s.power_pellets : PelletInReach(s, p)}
    IN  IF hit = {} THEN s
        ELSE [s EXCEPT !.power_pellets = s.power_pellets \ hit,
                       !.power_pellet_active = TRUE,
                       !.power_pellet_timer = POWER_PELLET_DURATION,
                       !.ghosts = [i \in 1 .. Len(s.ghosts) |->
                                     [s.ghosts[i] EXCEPT !.is_vulnerable = TRUE]],
                       !.ev.pellet = TRUE]

\* A capture that adds nothing to the score.
CaptureUnrewarded(s, i, pass) ==
    LET g == reset_position(s.ghosts[i])
        t == [s EXCEPT !.ghosts[i] = g]
    IN  [t EXCEPT !.ev.captures =
            Append(s.ev.captures,
                   [idx |-> i, pass |-> pass, x |-> t.ghosts[i].x, y |-> t.ghosts[i].y,
                    spawn |-> s.ghosts[i].spawn_position,
                    vulnerable |-> t.ghosts[i].is_vulnerable,
                    confused |-> t.ghosts[i].confused_timer,
                    dscore |-> t.score - s.score, dlives |-> t.lives - s.lives])]

\* A capture: ghost.reset_position(); self.score += 200
Capture(s, i, pass) ==
    LET g == reset_position(s.ghosts[i])
        t == [s EXCEPT !.ghosts[i] = g, !.score = s.score + GHOST_SCORE]
    IN  [t EXCEPT !.ev.captures =
            Append(s.ev.captures,
                   [idx |-> i, pass |-> pass, x |-> t.ghosts[i].x, y |-> t.ghosts[i].y,
                    spawn |-> s.ghosts[i].spawn_position,
                    vulnerable |-> t.ghosts[i].is_vulnerable,
                    confused |-> t.ghosts[i].confused_timer,
                    dscore |-> t.score - s.score, dlives |-> t.lives - s.lives])]

\* Notes a decrement of lives from 1 to 0, with the positions at that moment.
NoteLifeLost(old, t, pass) ==
    LET u == [t EXCEPT !.ev.lost = old.ev.lost + 1]
    IN  IF old.lives = 1 /\ ~old.ev.zero
        THEN [u EXCEPT !.ev.zero = TRUE, !.ev.zero_pass = pass,
                       !.ev.zero_pos = Positions(old)]
        ELSE u

\* update: "check ghost collisions", the inline pass over ghosts i, i+1, ...
RECURSIVE InlinePass(_, _)
InlinePass(s, i) ==
    IF i > Len(s.ghosts) THEN s
    ELSE LET g == s.ghosts[i]
         IN  IF g.respawn_timer <= 0 /\ GhostTouches(g, s.pacman_x, s.pacman_y)
             THEN IF g.is_vulnerable
                  THEN InlinePass(Capture(s, i, "inline"), i + 1)
                  ELSE LET l == s.lives - 1
                           t == IF l <= 0
                                THEN [s EXCEPT !.lives = l, !.game_over = TRUE,
                                               !.show_menu = TRUE]
                                ELSE [s EXCEPT !.lives = l]
                       IN  InlinePass(NoteLifeLost(s, t, "inline"), i + 1)
             ELSE InlinePass(s, i + 1)

\* LifeLost with the respawn done at the last life too.
LifeLostRespawning(s) ==
    LET l == s.lives - 1
        t == reset_pacman_position([s EXCEPT !.lives = IF l <= 0 THEN 0 ELSE l,
                                             !.game_over = (l <= 0),
                                             !.show_menu = (l <= 0)])
        u == [t EXCEPT !.ghosts = [k \in 1 .. Len(t.ghosts) |->
                                    reset_position(t.ghosts[k])],
                       !.ev.respawned = TRUE]
    IN  NoteLifeLost(s, u, "check")

\* check_ghost_collision, a ghost that is not vulnerable touches the player:
\* game over at the last life, else the player and every ghost go back to
\* their spawn points.  The loop ends in both cases.
LifeLost(s) ==
    LET l == s.lives - 1
    IN  IF l <= 0
        THEN NoteLifeLost(s, [s EXCEPT !.lives = 0, !.game_over = TRUE,
                                       !.show_menu = TRUE], "check")
        ELSE LET t == reset_pacman_position([s EXCEPT !.lives = l])
                 u == [t EXCEPT !.ghosts = [k \in 1 .. Len(t.ghosts) |->
                                             reset_position(t.ghosts[k])],
                                !.ev.respawned = TRUE]
             IN  NoteLifeLost(s, u, "check")

\* MainState::check_ghost_collision, the loop over ghosts i, i+1, ...; (cx, cy) is
\* the player's position when the loop starts (pacman_center is computed once).
RECURSIVE CheckPass(_, _, _, _)
CheckPass(s, i, cx, cy) ==
    IF i > Len(s.ghosts) THEN s
    ELSE LET g == s.ghosts[i]
         IN  IF g.respawn_timer <= 0 /\ GhostTouches(g, cx, cy)
             THEN IF g.is_vulnerable
                  THEN CheckPass(Capture(s, i, "check"), i + 1, cx, cy)
                  ELSE LifeLost(s)
             ELSE CheckPass(s, i + 1, cx, cy)

\* MainState::check_ghost_collision
check_ghost_collision(s) ==
    IF s.lives <= 0 THEN s ELSE CheckPass(s, 1, s.pacman_x, s.pacman_y)

\* the turn of update without the test of the grid centre.
TurnStepAnywhere(s) ==
    IF can_move(s, s.requested_direction)
    THEN [s EXCEPT !.current_direction = s.requested_direction,
                   !.ev.turned = (s.current_direction # s.requested_direction)]
    ELSE s

\* update: "if at grid center, allow direction change if the new direction is valid"
TurnStep(s) ==
    IF is_at_grid_center(s) /\ can_move(s, s.requested_direction)
    THEN [s EXCEPT !.current_direction = s.requested_direction,
                   !.ev.turned = (s.current_direction # s.requested_direction)]
    ELSE s

\* update: "move in current direction" / "update movement"
MoveStep(s) ==
    LET new_x == s.pacman_x + Delta(s.current_direction, MOVEMENT_SPEED)[1]
        new_y == s.pacman_y + Delta(s.current_direction, MOVEMENT_SPEED)[2]
    IN  IF ~HitsWall(new_x, new_y, PACMAN_SIZE)
        THEN [s EXCEPT !.pacman_x = new_x, !.pacman_y = new_y]
        ELSE [snap_to_grid(s) EXCEPT !.current_direction = "None", !.ev.snapped = TRUE]

\* update: "update ghosts with Pac-Man's position"; draws[i] are ghost i's random draws.
\* ev.hunted are the ghosts as their direction selection finds them (after the
\* target selection) and ev.stepped the ghosts as Ghost::update leaves them.
GhostsStep(s, draws) ==
    LET after == [i \in 1 .. Len(s.ghosts) |->
                    GhostUpdate(s.ghosts[i], s.pacman_x, s.pacman_y, draws[i])]
    IN  [s EXCEPT !.ghosts = after,
                  !.ev.hunted = [i \in 1 .. Len(s.ghosts) |->
                                   GhostTarget(s.ghosts[i], s.pacman_x, s.pacman_y, draws[i])],
                  !.ev.stepped = after]

\* The dot positions that can be within reach of the point (cx, cy): dots lie in
\* the middle of cells, so only the cells around the point need a look.
DotsAround(cx, cy) ==
    LET r == PACMAN_SIZE \div 2 + DOT_SIZE \div 2
    IN  {<<c * CELL_SIZE + CELL_SIZE \div 2, w * CELL_SIZE + CELL_SIZE \div 2>> :
            c \in ((cx - r) \div CELL_SIZE) .. ((cx + r) \div CELL_SIZE),
            w \in ((cy - r) \div CELL_SIZE) .. ((cy + r) \div CELL_SIZE)}

\* the dots scored but retained.
DotStepKeeping(s) ==
    LET hit == {d \in DotsAround(PacmanCenterX(s), PacmanCenterY(s)) \cap s.dots :
                   DotInReach(s, d)}
    IN  IF hit = {} THEN s
        ELSE [s EXCEPT !.score = s.score + DOT_SCORE * Cardinality(hit),
                       !.ev.eaten = hit]

\* update: "collect dots" (dots.retain)
DotStep(s) ==
    LET hit == {d \in DotsAround(PacmanCenterX(s), PacmanCenterY(s)) \cap s.dots :
                   DotInReach(s, d)}
    IN  IF hit = {} THEN s
        ELSE [s EXCEPT !.dots = s.dots \ hit,
                       !.score = s.score + DOT_SCORE * Cardinality(hit),
                       !.ev.eaten = hit]

\* What a handler found when it was called (history only)
Began(s) ==
    [centered |-> is_at_grid_center(s), x |-> s.pacman_x, y |-> s.pacman_y,
     current |-> s.current_direction, requested |-> s.requested_direction,
     lives |-> s.lives, game_over |-> s.game_over]

\* update with the ghost collisions checked before the power pellets.
UpdateCollisionsFirst(s0, dt, draws) ==
    LET s1 == PowerTimerStep([s0 EXCEPT !.ev = [NoEvent EXCEPT !.op = "tick",
                                                               !.began = Began(s0)]], dt)
        s2 == GhostTimerStep(s1, dt)
        s3 == InlinePass(s2, 1)
        s4 == PowerPelletStep(s3)
    IN  IF s4.game_over THEN s4
        ELSE DotStep(check_ghost_collision(GhostsStep(MoveStep(TurnStep(s4)), draws)))

\* EventHandler::update with frame time dt and the ghosts' random draws
Update(s0, dt, draws) ==
    LET s1 == PowerTimerStep([s0 EXCEPT !.ev = [NoEvent EXCEPT !.op = "tick",
                                                               !.began = Began(s0)]], dt)
        s2 == GhostTimerStep(s1, dt)
        s3 == PowerPelletStep(s2)
        s4 == InlinePass(s3, 1)
    IN  IF s4.game_over THEN s4
        ELSE DotStep(check_ghost_collision(GhostsStep(MoveStep(TurnStep(s4)), draws)))

\* key_down_event that stores the request only when it can be applied at once.
key_down_event_forgetful(s0, keycode) ==
    LET s == [s0 EXCEPT !.ev = [NoEvent EXCEPT !.op = "key", !.began = Began(s0)]]
    IN  IF ~s.game_over
        THEN LET new_direction == IF keycode \in {"Up", "Down", "Left", "Right"}
                                  THEN keycode ELSE s.requested_direction
             IN  IF is_at_grid_center(s) /\ can_move(s, new_direction)
                 THEN [s EXCEPT !.requested_direction = new_direction,
                                !.current_direction = new_direction]
                 ELSE s
        ELSE s

\* EventHandler::key_down_event; keycode "Other" is any key that is no arrow
key_down_event(s0, keycode) ==
    LET s == [s0 EXCEPT !.ev = [NoEvent EXCEPT !.op = "key", !.began = Began(s0)]]
    IN  IF ~s.game_over
        THEN LET new_direction == IF keycode \in {"Up", "Down", "Left", "Right"}
                                  THEN keycode ELSE s.requested_direction
                 t == [s EXCEPT !.requested_direction = new_direction]
             IN  IF is_at_grid_center(t) /\ can_move(t, new_direction)
                 THEN [t EXCEPT !.current_direction = new_direction]
                 ELSE t
        ELSE s

\* mouse_button_down_event: the menu and its two buttons, in pixels of the window
MenuX == ((CELL_SIZE \div UNIT) * MapWidth(MAP_STR) - 300) \div 2
MenuY == ((CELL_SIZE \div UNIT) * MapHeight(MAP_STR) - 200) \div 2
\* "play again button": play_button_x = menu_x + 30
PlayButton(x, y) ==
    /\ x >= MenuX + 30
    /\ x <= MenuX + 30 + 120
    /\ y >= MenuY + 120
    /\ y <= MenuY + 120 + 40
\* "exit button": exit_button_x = menu_x + menu_width - button_width - 30
ExitButton(x, y) ==
    /\ x >= MenuX + 300 - 120 - 30
    /\ x <= MenuX + 300 - 120 - 30 + 120
    /\ y >= MenuY + 120
    /\ y <= MenuY + 120 + 40

\* mouse_button_down_event without the test of show_menu.
mouse_button_down_any_phase(s0, button, x, y) ==
    LET s == [s0 EXCEPT !.ev = [NoEvent EXCEPT !.op = "mouse"]]
    IN  IF button = "Left"
        THEN <<IF PlayButton(x, y) THEN [reset_game(s) EXCEPT !.ev.op = "reset"] ELSE s,
               ExitButton(x, y)>>
        ELSE <<s, FALSE>>

\* EventHandler::mouse_button_down_event for a click at pixel (x, y) of the
\* window; the result is <<state, event::quit was called>>.
mouse_button_down_event(s0, button, x, y) ==
    LET s == [s0 EXCEPT !.ev = [NoEvent EXCEPT !.op = "mouse"]]
    IN  IF s.show_menu /\ button = "Left"
        THEN <<IF PlayButton(x, y) THEN [reset_game(s) EXCEPT !.ev.op = "reset"] ELSE s,
               ExitButton(x, y)>>
        ELSE <<s, FALSE>>

(***************************************************************************)
(* The state machine.                                                      *)
(***************************************************************************)
VARIABLES
    pacman_x, pacman_y, current_direction, requested_direction,
    dots, ghosts, score, lives, game_over, show_menu,
    power_pellets, power_pellet_active, power_pellet_timer,
    running,      \* FALSE once event::quit was called
    ev,           \* what the last handler did (for the properties)
    script,       \* the input script this behaviour follows first
    sidx, srem,   \* position in the script
    free_left,    \* ticks left after the script
    rand_left,    \* non-default random draws left after the script
    elapsed,      \* sum of the frame times of the ticks after the last pellet
                  \* pickup (-1 before the first; not counted beyond the duration)
    was_reset,    \* reset_game was called since the last pellet pickup
    inputs_left,  \* key and mouse events left after the script
    maze,         \* the map the engine is built from
    built,        \* MainState::new has returned Ok
    asked,        \* the direction requested by a key in mid-cell, with no other
                  \* request, life loss, game over or reset since ("None" if none)
    caught        \* the number of captures since MainState::new or the last reset_game

gameVars == <<pacman_x, pacman_y, current_direction, requested_direction,
              dots, ghosts, score, lives, game_over, show_menu,
              power_pellets, power_pellet_active, power_pellet_timer>>
vars == <<pacman_x, pacman_y, current_direction, requested_direction,
          dots, ghosts, score, lives, game_over, show_menu,
          power_pellets, power_pellet_active, power_pellet_timer,
          running, ev, script, sidx, srem, free_left, rand_left, elapsed, was_reset,
          inputs_left, maze, built, asked, caught>>

\* The MainState value held by the variables.
Cur ==
    [pacman_x |-> pacman_x, pacman_y |-> pacman_y,
     current_direction |-> current_direction,
     requested_direction |-> requested_direction,
     dots |-> dots, ghosts |-> ghosts, score |-> score, lives |-> lives,
     game_over |-> game_over, show_menu |-> show_menu,
     power_pellets |-> power_pellets, power_pellet_active |-> power_pellet_active,
     power_pellet_timer |-> power_pellet_timer, ev |-> ev]

Become(s) ==
    /\ pacman_x' = s.pacman_x
    /\ pacman_y' = s.pacman_y
    /\ current_direction' = s.current_direction
    /\ requested_direction' = s.requested_direction
    /\ dots' = s.dots
    /\ ghosts' = s.ghosts
    /\ score' = s.score
    /\ lives' = s.lives
    /\ game_over' = s.game_over
    /\ show_menu' = s.show_menu
    /\ power_pellets' = s.power_pellets
    /\ power_pellet_active' = s.power_pellet_active
    /\ power_pellet_timer' = s.power_pellet_timer
    /\ ev' = s.ev

(***************************************************************************)
(* Inputs.  A behaviour first follows one of a few fixed input scripts     *)
(* (keys, frame times and random draws, each a value the program can get), *)
(* which brings the game from the state built by MainState::new to a       *)
(* situation of interest, and then takes arbitrary inputs from small sets: *)
(* MaxFreeTicks ticks, MaxRandom of them with a non-default random draw,   *)
(* and MaxFreeInputs key or mouse events.                                  *)
(***************************************************************************)
MaxFreeTicks == 4
MaxRandom == 1
MaxFreeInputs == 1

\* Frame times (timer::delta): 10 ms, 5 ms, and a stall of 2.5 s.
Frame == SEC \div 100
ShortFrame == SEC \div 200
LongFrame == (5 * SEC) \div 2
\* The frame times of free ticks.
DeltaTimes == {Frame, LongFrame}
\* Random targets drawn in free ticks.
RandomTargets == {<<0, 0>>}
\* The ghost that may get non-default draws in free ticks: the first of the
\* ghosts built for a 'G' cell.
DrawGhosts == IF Len(ghosts) > 3 THEN {4} ELSE {1}
\* Clicks: on "Play Again", on the pixel column both buttons share, on "Exit", elsewhere.
ClickPoints == {<<240, 340>>, <<300, 340>>, <<360, 340>>, <<10, 10>>}
Clicks == {<<"Left", p[1], p[2]>> : p \in ClickPoints} \cup {<<"Right", 240, 340>>}
KeyCodes == {"Up", "Down", "Left", "Right", "Other"}

MaxGhosts == Len(NewGhosts(MAP_STR))
NoDraws == [i \in 1 .. MaxGhosts |-> NoDraw]

\* Script commands.
Key(k) == [op |-> "key", key |-> k]
Ticks(n) == [op |-> "tick", n |-> n, dt |-> Frame, draws |-> NoDraws]
Quick(n) == [op |-> "tick", n |-> n, dt |-> ShortFrame, draws |-> NoDraws]
Stall(n) == [op |-> "tick", n |-> n, dt |-> LongFrame, draws |-> NoDraws]
\* n ticks in which ghost g draws the random target (tx, ty), in model units
Aim(g, tx, ty, n) ==
    [op |-> "tick", n |-> n, dt |-> Frame,
     draws |-> [NoDraws EXCEPT ![g] = [b1 |-> TRUE, b2 |-> TRUE, tx |-> tx, ty |-> ty,
                                       u |-> 0]]]
Click(x, y) == [op |-> "mouse", x |-> x, y |-> y]

\* n ticks in which ghost g draws the player's position as its target
Chase(g, n) ==
    [op |-> "tick", n |-> n, dt |-> Frame,
     draws |-> [NoDraws EXCEPT ![g] = [b1 |-> TRUE, b2 |-> FALSE, tx |-> 0, ty |-> 0, u |-> 0]]]
\* n ticks in which ghost g draws direction index u
Pick(g, u, n) ==
    [op |-> "tick", n |-> n, dt |-> Frame,
     draws |-> [NoDraws EXCEPT ![g] = [b1 |-> FALSE, b2 |-> FALSE, tx |-> 0, ty |-> 0, u |-> u]]]

\* From the start cell to row 9 and right into the ghosts that stay around
\* their spawn points; the player touches ghost 4 in the n-th tick after turning.
ToGhostHouse(n) ==
    <<Key("Left"), Ticks(30), Key("Up"), Ticks(60), Key("Left"), Ticks(60),
      Key("Up"), Ticks(120), Key("Right"), Ticks(n)>>

\* Left, up two cells and on against the wall above cell (8, 13).
SnapScript == <<Key("Left"), Ticks(30), Key("Up"), Ticks(60)>>

\* Two lives lost at the ghost house, and a third trip that ends 4 ticks
\* before the contact.
GameOverScript ==
    ToGhostHouse(63) \o <<Stall(2)>> \o ToGhostHouse(63) \o <<Stall(2)>>
        \o ToGhostHouse(59)

\* Ghost 4 is led from its spawn point around to column 1 and up towards the
\* power pellet of the top-left corner, while the player walks to row 1 and
\* left towards the same pellet.  The targets are random targets on the
\* border of the map.  n is the length of the ghost's last leg.
ToCorner(a, b, c, d, e, f, n) ==
    <<Aim(4, 1198, 540 + a, 5 + a), Aim(4, 545, 0, 115 + a), Aim(4, 0, 425, 60),
      Aim(4, 485, 0, b), Key("Left"), Aim(4, 485, 0, 120 - b), Aim(4, 0, 305, c),
      Key("Up"), Aim(4, 0, 305, 60), Key("Left"), Aim(4, 0, 305, d),
      Aim(4, 365, 0, e), Key("Up"), Aim(4, 365, 0, 120 - e), Aim(4, 0, 185, 300),
      Aim(4, 65, 0, f), Key("Left"), Aim(4, 65, 0, n)>>

\* The player comes within reach of the pellet in the tick after the script,
\* and within reach of ghost 4 in the same tick.
PelletScript == ToCorner(0, 106, 16, 44, 76, 16, 71)

\* Two lives lost at the ghost house; then the player comes within reach of
\* ghost 4 in the tick after the script, one tick before it comes within
\* reach of the pellet.
PelletGameOverScript ==
    ToGhostHouse(63) \o <<Stall(2)>> \o ToGhostHouse(63) \o <<Stall(2)>>
        \o ToCorner(1, 107, 17, 43, 77, 17, 70)

\* The player alone: to the pellet of the top-left corner and back down to
\* row 9, to meet the ghosts at their spawn points in the tick after the
\* script, while they are still vulnerable.
PelletHouseScript ==
    <<Key("Left"), Ticks(30), Key("Up"), Ticks(60), Key("Left"), Ticks(120),
      Key("Up"), Ticks(360), Key("Left"), Ticks(30), Key("Down"), Ticks(90),
      Key("Right"), Ticks(90), Key("Down"), Ticks(180), Key("Right"), Ticks(152)>>

\* One short tick in which ghost 4 draws the target (270, 221.5), in the gap
\* above the ghost house, and ghosts 5 and 6 draw (599, 280), far to the right.
Park ==
    [op |-> "tick", n |-> 1, dt |-> ShortFrame,
     draws |-> [NoDraws EXCEPT
                  ![4] = [b1 |-> TRUE, b2 |-> TRUE, tx |-> 540, ty |-> 443, u |-> 0],
                  ![5] = [b1 |-> TRUE, b2 |-> TRUE, tx |-> 1198, ty |-> 560, u |-> 0],
                  ![6] = [b1 |-> TRUE, b2 |-> TRUE, tx |-> 1198, ty |-> 560, u |-> 0]]]

\* At 200 frames a second: ghosts 4, 5 and 6 leave the ghost house, the player
\* collects the corner pellet, walks through the empty ghost house to cell
\* (9, 9) and up the gap towards ghost 4.  The script ends 2 ticks before the
\* player, on its way out of reach of ghost 4's spawn point, touches ghost 4.
EscapeScript ==
    <<Key("Left"), Park, Quick(29), Key("Up"), Quick(60), Key("Left"), Quick(120),
      Key("Up"), Quick(360), Key("Left"), Quick(30), Key("Down"), Quick(90),
      Key("Right"), Quick(90), Key("Down"), Quick(180), Key("Right"), Quick(150),
      Key("Up"), Quick(55)>>

\* Right, then up column 10 with Right requested in mid-cell; the script ends
\* 2 ticks before the player is centred in cell (10, 13), under a wall and
\* with cell (11, 13) open.
TurnScript == <<Key("Right"), Ticks(30), Key("Up"), Ticks(50), Key("Right"), Ticks(8)>>

Scripts == <<
    <<>>,
    SnapScript,
    TurnScript,
    EscapeScript,
    GameOverScript,
    PelletScript,
    PelletGameOverScript,
    PelletHouseScript
>>

Scripted == sidx <= Len(Scripts[script])
Command == Scripts[script][sidx]

\* The non-default draws of a free tick: one ghost aims at the player, draws a
\* random target, or draws another direction index.
DrawChoices ==
    {[b1 |-> TRUE, b2 |-> FALSE, tx |-> 0, ty |-> 0, u |-> 0],
     [b1 |-> FALSE, b2 |-> FALSE, tx |-> 0, ty |-> 0, u |-> 1]}
        \cup {[b1 |-> TRUE, b2 |-> TRUE, tx |-> t[1], ty |-> t[2], u |-> 0] : t \in RandomTargets}

\* The inputs <<dt, draws, random draws used>> a tick may take now.
TickInputs ==
    IF Scripted
    THEN IF Command.op = "tick" THEN {<<Command.dt, Command.draws, 0>>} ELSE {}
    ELSE IF free_left = 0 THEN {}
         ELSE {<<dt, NoDraws, 0>> : dt \in DeltaTimes}
              \cup IF rand_left = 0 THEN {}
                   ELSE {<<dt, [NoDraws EXCEPT ![g] = d], 1>> :
                            dt \in DeltaTimes, g \in DrawGhosts \cap (1 .. Len(ghosts)),
                            d \in DrawChoices}

Init ==
    /\ pacman_x = New(MAP_STR).pacman_x
    /\ pacman_y = New(MAP_STR).pacman_y
    /\ current_direction = New(MAP_STR).current_direction
    /\ requested_direction = New(MAP_STR).requested_direction
    /\ dots = New(MAP_STR).dots
    /\ ghosts = New(MAP_STR).ghosts
    /\ score = New(MAP_STR).score
    /\ lives = New(MAP_STR).lives
    /\ game_over = New(MAP_STR).game_over
    /\ show_menu = New(MAP_STR).show_menu
    /\ power_pellets = New(MAP_STR).power_pellets
    /\ power_pellet_active = New(MAP_STR).power_pellet_active
    /\ power_pellet_timer = New(MAP_STR).power_pellet_timer
    /\ ev = New(MAP_STR).ev
    /\ running = TRUE
    /\ script \in 1 .. Len(Scripts)
    /\ sidx = 1
    /\ srem = 0
    /\ free_left = MaxFreeTicks
    /\ rand_left = MaxRandom
    /\ elapsed = -1
    /\ was_reset = FALSE
    /\ inputs_left = MaxFreeInputs
    /\ maze = MAP_STR
    /\ built = TRUE
    /\ asked = "None"
    /\ caught = 0

\* One call of update.
Tick ==
    /\ running
    /\ \E in \in TickInputs :
          /\ \E s \in {Update(Cur, in[1], in[2])} :
                /\ Become(s)
                /\ elapsed' = IF s.ev.pellet THEN 0
                              ELSE IF elapsed < 0 THEN elapsed
                              ELSE IF elapsed + in[1] > POWER_PELLET_DURATION
                                   THEN POWER_PELLET_DURATION
                                   ELSE elapsed + in[1]
                /\ was_reset' = (was_reset /\ ~s.ev.pellet)
                /\ asked' = IF s.ev.lost > 0 \/ s.game_over THEN "None" ELSE asked
                /\ caught' = caught + Len(s.ev.captures)
          /\ rand_left' = rand_left - in[3]
    /\ IF Scripted
       THEN LET left == IF srem = 0 THEN Command.n - 1 ELSE srem - 1
            IN  /\ srem' = left
                /\ sidx' = IF left = 0 THEN sidx + 1 ELSE sidx
                /\ free_left' = free_left
       ELSE /\ free_left' = free_left - 1
            /\ UNCHANGED <<sidx, srem>>
    /\ UNCHANGED <<running, script, inputs_left, maze, built>>

\* One call of key_down_event.
KeyDown ==
    /\ running
    /\ \E k \in (IF Scripted THEN IF Command.op = "key" THEN {Command.key} ELSE {}
                 ELSE IF inputs_left = 0 THEN {} ELSE KeyCodes) :
          \E s \in {key_down_event(Cur, k)} :
              /\ Become(s)
              /\ asked' = IF game_over \/ k = "Other" THEN asked
                          ELSE IF is_at_grid_center(Cur) THEN "None" ELSE k
    /\ sidx' = IF Scripted THEN sidx + 1 ELSE sidx
    /\ inputs_left' = IF Scripted THEN inputs_left ELSE inputs_left - 1
    /\ UNCHANGED <<running, script, srem, free_left, rand_left, elapsed, was_reset,
                   maze, built, caught>>

\* One call of mouse_button_down_event.
MouseDown ==
    /\ running
    /\ \E c \in (IF Scripted
                 THEN IF Command.op = "mouse" THEN {<<"Left", Command.x, Command.y>>} ELSE {}
                 ELSE IF inputs_left = 0 THEN {} ELSE Clicks) :
          \E r \in {mouse_button_down_event(Cur, c[1], c[2], c[3])} :
              /\ Become(r[1])
              /\ running' = ~r[2]
              /\ was_reset' = (was_reset \/ r[1].ev.op = "reset")
              /\ asked' = IF r[1].ev.op = "reset" THEN "None" ELSE asked
              /\ caught' = IF r[1].ev.op = "reset" THEN 0 ELSE caught
    /\ sidx' = IF Scripted THEN sidx + 1 ELSE sidx
    /\ inputs_left' = IF Scripted THEN inputs_left ELSE inputs_left - 1
    /\ UNCHANGED <<script, srem, free_left, rand_left, elapsed, maze, built>>

Next == Tick \/ KeyDown \/ MouseDown

Spec == Init /\ [][Next]_vars

(***************************************************************************)
(* Loading: MainState::new applied to a map of any content.                *)
(***************************************************************************)
MazeCells == 4
MazeChars == {"W", ".", "P", "G"}

\* A closed room without any marker
EmptyRoom == <<
    <<"W","W","W">>,
    <<"W",".","W">>,
    <<"W","W","W">> >>

\* The maps tried: every single row of MazeCells cells, the empty room and MAP_STR.
Mazes == {<<row>> : row \in [1 .. MazeCells -> MazeChars]} \cup {EmptyRoom, MAP_STR}

\* No MainState exists yet.
Unbuilt ==
    [pacman_x |-> 0, pacman_y |-> 0, current_direction |-> "None",
     requested_direction |-> "None", dots |-> {}, ghosts |-> <<>>, score |-> 0,
     lives |-> 0, game_over |-> FALSE, show_menu |-> FALSE, power_pellets |-> {},
     power_pellet_active |-> FALSE, power_pellet_timer |-> 0,
     ev |-> [NoEvent EXCEPT !.op = "none"]]

LoadInit ==
    /\ maze \in Mazes
    /\ built = FALSE
    /\ pacman_x = Unbuilt.pacman_x
    /\ pacman_y = Unbuilt.pacman_y
    /\ current_direction = Unbuilt.current_direction
    /\ requested_direction = Unbuilt.requested_direction
    /\ dots = Unbuilt.dots
    /\ ghosts = Unbuilt.ghosts
    /\ score = Unbuilt.score
    /\ lives = Unbuilt.lives
    /\ game_over = Unbuilt.game_over
    /\ show_menu = Unbuilt.show_menu
    /\ power_pellets = Unbuilt.power_pellets
    /\ power_pellet_active = Unbuilt.power_pellet_active
    /\ power_pellet_timer = Unbuilt.power_pellet_timer
    /\ ev = Unbuilt.ev
    /\ running = TRUE
    /\ script = 1
    /\ sidx = 1
    /\ srem = 0
    /\ free_left = 0
    /\ rand_left = 0
    /\ elapsed = -1
    /\ was_reset = FALSE
    /\ inputs_left = 0
    /\ asked = "None"
    /\ caught = 0

\* main: MainState::new(&mut ctx)?  The function has no path that returns Err.
Load ==
    /\ ~built
    /\ Become(New(maze))
    /\ built' = TRUE
    /\ UNCHANGED <<maze, running, script, sidx, srem, free_left, rand_left, elapsed,
                   was_reset, inputs_left, asked, caught>>

LoadNext == Load

LoadSpec == LoadInit /\ [][LoadNext]_vars

(***************************************************************************)
(* Snapping: MainState::snap_to_grid applied to a player at any position.  *)
(***************************************************************************)
SnapCells == 2

\* The coordinates tried: every half pixel of the first SnapCells cells.
SnapInputs == 0 .. (SnapCells * CELL_SIZE)

SnapInit ==
    /\ pacman_x \in SnapInputs
    /\ pacman_y \in SnapInputs
    /\ current_direction = Unbuilt.current_direction
    /\ requested_direction = Unbuilt.requested_direction
    /\ dots = Unbuilt.dots
    /\ ghosts = Unbuilt.ghosts
    /\ score = Unbuilt.score
    /\ lives = START_LIVES
    /\ game_over = Unbuilt.game_over
    /\ show_menu = Unbuilt.show_menu
    /\ power_pellets = Unbuilt.power_pellets
    /\ power_pellet_active = Unbuilt.power_pellet_active
    /\ power_pellet_timer = Unbuilt.power_pellet_timer
    /\ ev = Unbuilt.ev
    /\ running = TRUE
    /\ script = 1
    /\ sidx = 1
    /\ srem = 0
    /\ free_left = 0
    /\ rand_left = 0
    /\ elapsed = -1
    /\ was_reset = FALSE
    /\ inputs_left = 0
    /\ asked = "None"
    /\ caught = 0
    /\ maze = MAP_STR
    /\ built = TRUE

\* One call of snap_to_grid.
Snap ==
    /\ ev.op = "none"
    /\ Become([snap_to_grid(Cur) EXCEPT !.ev = [NoEvent EXCEPT !.op = "snap",
                                                               !.began = Began(Cur)]])
    /\ UNCHANGED <<maze, built, running, script, sidx, srem, free_left, rand_left,
                   elapsed, was_reset, inputs_left, asked, caught>>

SnapNext == Snap

SnapSpec == SnapInit /\ [][SnapNext]_vars

(***************************************************************************)
(* Properties.                                                             *)
(***************************************************************************)
\* The last step was a call of update / a mouse click.
WasTick == ev.op = "tick"
IsTick == ev'.op = "tick"
IsClick == ev'.op \in {"mouse", "reset"}

GhostPositions == [i \in 1 .. Len(ghosts) |-> <<ghosts[i].x, ghosts[i].y>>]

\* C1. Player wall containment: in every reachable state the player's hitbox
\* (the PACMAN_SIZE square at pacman_x, pacman_y) overlaps no wall rectangle,
\* also after snap_to_grid and after the respawn that follows a lost life.
C1_PlayerOutsideWalls == ~HitsWall(pacman_x, pacman_y, PACMAN_SIZE)

\* A tick in which the player ran against a wall and was snapped to the grid.
C1_Witness == WasTick /\ ev.snapped /\ current_direction = "None"

\* C2. Pursuer wall containment: in every reachable state, the one built by
\* MainState::new included, no ghost's hitbox (the GHOST_SIZE square at
\* ghost.x, ghost.y) overlaps a wall rectangle.
C2_GhostsOutsideWalls ==
    \A i \in 1 .. Len(ghosts) : ~HitsWall(ghosts[i].x, ghosts[i].y, GHOST_SIZE)

\* C3. Life-loss transition: at the end of a tick in which lives was
\* decremented to 0, by either collision pass, game_over and show_menu are
\* true, and the player and every ghost are where they were at the decrement.
C3_LifeLossTransition ==
    (WasTick /\ ev.zero) =>
        /\ game_over
        /\ show_menu
        /\ <<pacman_x, pacman_y, GhostPositions>> = ev.zero_pos

\* The last life was lost in the pass that follows the movement.
C3_Witness == WasTick /\ ev.zero /\ ev.zero_pass = "check" /\ game_over /\ lives = 0

\* C4. Game-over freeze: a tick that begins with game_over = true leaves the
\* player position, every ghost position, the dots, the power pellets and
\* the score as they were.
C4_GameOverFreeze ==
    [][(game_over /\ IsTick) =>
          /\ pacman_x' = pacman_x
          /\ pacman_y' = pacman_y
          /\ GhostPositions' = GhostPositions
          /\ dots' = dots
          /\ power_pellets' = power_pellets
          /\ score' = score]_vars

\* C5. Phase transitions: game_over and show_menu are always equal; the game
\* goes from Playing to game over only in a tick in which lives is
\* decremented to 0, and from game over to Playing only by reset_game; a
\* click while show_menu is false changes no game state.
C5_PhaseTransitions ==
    /\ [](game_over = show_menu)
    /\ [][/\ (~game_over /\ game_over') => (IsTick /\ ev'.zero /\ lives' <= 0)
          /\ (game_over /\ ~game_over') => ev'.op = "reset"
          /\ (~show_menu /\ IsClick) => UNCHANGED gameVars]_vars

\* The game is back in Playing after a game over, by a click on "Play Again".
C5_Witness == ev.op = "reset" /\ ~game_over /\ ~show_menu /\ lives = START_LIVES

\* The cells of the map, and what the map defines: the player's start cell,
\* the dots, the four power pellets and the ghosts' spawn cell.
MapCells == {<<c, r>> \in (0 .. 19) \X (0 .. 19) : TRUE}
CellMiddle(c, r) == <<c * CELL_SIZE + CELL_SIZE \div 2, r * CELL_SIZE + CELL_SIZE \div 2>>
Centred(x, y, size, ch) ==
    \E p \in MapCells :
        /\ CellAt(MAP_STR, p[1], p[2]) = ch
        /\ x = p[1] * CELL_SIZE + (CELL_SIZE - size) \div 2
        /\ y = p[2] * CELL_SIZE + (CELL_SIZE - size) \div 2

\* C6. Reset postcondition: after reset_game the player is at the map's 'P'
\* cell with both directions None, every dot and power pellet of the map is
\* present, score is 0, lives is 3, the power-pellet window is inactive with
\* timer 0, every ghost is at its spawn point (the 'G' cell), not vulnerable,
\* with confused and respawn timers 0, and the game is in Playing.
C6_ResetPostcondition ==
    (ev.op = "reset") =>
        /\ Centred(pacman_x, pacman_y, PACMAN_SIZE, "P")
        /\ current_direction = "None"
        /\ requested_direction = "None"
        /\ dots = {CellMiddle(p[1], p[2]) : p \in {q \in MapCells : CellAt(MAP_STR, q[1], q[2]) = "."}}
        /\ power_pellets = {CellMiddle(1, 1), CellMiddle(18, 1), CellMiddle(1, 18), CellMiddle(18, 18)}
        /\ score = 0
        /\ lives = 3
        /\ ~power_pellet_active
        /\ power_pellet_timer = 0
        /\ Len(ghosts) > 0
        /\ \A i \in 1 .. Len(ghosts) :
              /\ <<ghosts[i].x, ghosts[i].y>> = ghosts[i].spawn_position
              /\ Centred(ghosts[i].x, ghosts[i].y, GHOST_SIZE, "G")
              /\ ~ghosts[i].is_vulnerable
              /\ ghosts[i].confused_timer = 0
              /\ ghosts[i].respawn_timer = 0
        /\ ~game_over
        /\ ~show_menu

\* reset_game has run in a game over that came while the window was active.
C6_Witness == ev.op = "reset" /\ elapsed >= 0 /\ elapsed < POWER_PELLET_DURATION

\* C7. Power-up symmetry: a ghost is vulnerable only while the window is
\* active, and at the end of a tick in which the timer ran out (and no
\* pellet was collected after that) the window is inactive and no ghost is
\* vulnerable.
C7_PowerUpSymmetry ==
    /\ (\E i \in 1 .. Len(ghosts) : ghosts[i].is_vulnerable) => power_pellet_active
    /\ (WasTick /\ ev.expired /\ ~ev.pellet) =>
          /\ ~power_pellet_active
          /\ \A i \in 1 .. Len(ghosts) : ~ghosts[i].is_vulnerable

\* The timer ran out in a tick of the game in progress.
C7_Witness == WasTick /\ ev.expired /\ ~power_pellet_active /\ ~game_over

C10_CaptureOutcome ==
    WasTick =>
        \A k \in 1 .. Len(ev.captures) :
            /\ <<ev.captures[k].x, ev.captures[k].y>> = ev.captures[k].spawn
            /\ ~ev.captures[k].vulnerable
            /\ ev.captures[k].confused = 3 * SEC
            /\ ev.captures[k].dscore = 200
            /\ ev.captures[k].dlives = 0

\* Three ghosts were captured by check_ghost_collision in one tick.
C10_Witness ==
    /\ WasTick
    /\ Len(ev.captures) = 3
    /\ \A k \in 1 .. 3 : ev.captures[k].pass = "check"
    /\ lives = START_LIVES

(***************************************************************************)
(* Turning                                                                 *)
(***************************************************************************)
Perpendicular(a, b) ==
    \/ a \in {"Up", "Down"} /\ b \in {"Left", "Right"}
    \/ a \in {"Left", "Right"} /\ b \in {"Up", "Down"}

\* A tick, or a key, that finds the player in mid-cell with a request
\* perpendicular to the direction of travel.
MidCellRequest ==
    /\ ~is_at_grid_center(Cur)
    /\ \/ IsTick /\ Perpendicular(requested_direction, current_direction)
       \/ ev'.op = "key" /\ Perpendicular(requested_direction', current_direction)

\* C11 as stated: while the player is in mid-cell, neither a tick nor a key
\* with a perpendicular request changes current_direction.
C11_TurnGating_AsStated ==
    [][MidCellRequest => current_direction' = current_direction]_vars

\* C11, amended: while the player is in mid-cell, neither a tick nor a key
\* with a perpendicular request makes the player turn: a key leaves
\* current_direction as it is, and a tick leaves it as it is or sets it to
\* None, which happens only when the move is blocked (snap_to_grid) or a life
\* is lost (reset_pacman_position).
C11_TurnGating ==
    [][MidCellRequest =>
          \/ current_direction' = current_direction
          \/ /\ IsTick
             /\ current_direction' = "None"
             /\ ev'.snapped \/ ev'.respawned]_vars

\* A tick found the player in mid-cell with a perpendicular request and left
\* the direction of travel alone.
C11_Witness ==
    /\ WasTick
    /\ ~ev.began.centered
    /\ Perpendicular(ev.began.requested, ev.began.current)
    /\ requested_direction = ev.began.requested
    /\ current_direction = ev.began.current
    /\ <<pacman_x, pacman_y>> # <<ev.began.x, ev.began.y>>

\* The column and row of the cell whose centred position is (x, y)
CellOf(x, y) == <<(x - PacmanOffset) \div CELL_SIZE, (y - PacmanOffset) \div CELL_SIZE>>
ExactlyCentered(x, y) ==
    /\ (x - PacmanOffset) % CELL_SIZE = 0
    /\ (y - PacmanOffset) % CELL_SIZE = 0

\* The player is exactly at a cell centre under a wall, with the cell to the
\* right open.
TurnCorner(x, y) ==
    /\ ExactlyCentered(x, y)
    /\ IsWall(CellOf(x, y)[1], CellOf(x, y)[2] - 1)
    /\ ~IsWall(CellOf(x, y)[1] + 1, CellOf(x, y)[2])

\* C12: a tick that begins in Playing with the player exactly at a cell
\* centre, a wall in the cell above, Right requested and the cell to the right
\* open, and in which no ghost collides with the player, ends with
\* current_direction Right and the player MOVEMENT_SPEED further along +x, y unchanged.
C12_TurnAtCenter ==
    [][(/\ IsTick
        /\ ~game_over
        /\ TurnCorner(pacman_x, pacman_y)
        /\ requested_direction = "Right"
        /\ ev'.lost = 0
        /\ ev'.captures = <<>>)
       => /\ current_direction' = "Right"
          /\ pacman_x' = pacman_x + MOVEMENT_SPEED
          /\ pacman_y' = pacman_y]_vars

\* The player came up to the wall with Right requested and turned.
C12_Witness ==
    /\ WasTick
    /\ ~ev.began.game_over
    /\ TurnCorner(ev.began.x, ev.began.y)
    /\ ev.began.current = "Up"
    /\ ev.began.requested = "Right"
    /\ ev.lost = 0
    /\ ev.captures = <<>>
    /\ ev.turned
    /\ current_direction = "Right"
    /\ pacman_x = ev.began.x + MOVEMENT_SPEED
    /\ pacman_y = ev.began.y

(***************************************************************************)
(* Dots                                                                    *)
(***************************************************************************)
\* The dots left that the player has within reach
DotsInReach == {d \in DotsAround(PacmanCenterX(Cur), PacmanCenterY(Cur)) \cap dots :
                   DotInReach(Cur, d)}

\* C13: a dot is removed in the tick that collects it and is not present again
\* before reset_game: no step but a reset adds a dot, a tick scores DOT_SCORE
\* for each dot it removes (and GHOST_SCORE for each capture) and nothing
\* else, and it leaves no dot within the player's reach, so that a further
\* tick at the same position scores nothing.
C13_PickupOnce ==
    [][/\ ev'.op # "reset" => dots' \subseteq dots
       /\ IsTick => /\ ev'.eaten = dots \ dots'
                    /\ score' = score + DOT_SCORE * Cardinality(dots \ dots')
                                      + GHOST_SCORE * Len(ev'.captures)
                    /\ DotsInReach' = {}]_vars

\* A tick with the player within reach of the place of a dot collected before:
\* nothing is scored.
C13_Witness ==
    /\ WasTick
    /\ \E d \in MAP_DOTS \ dots : DotInReach(Cur, d)
    /\ <<pacman_x, pacman_y>> = <<ev.began.x, ev.began.y>>
    /\ ev.eaten = {}
    /\ ev.captures = <<>>
    /\ score > 0

(***************************************************************************)
(* Loading                                                                 *)
(***************************************************************************)
HasPlayerSpawn(m) == Len(CellsOf(m, "P")) > 0
HasGhostSpawn(m) == Len(CellsOf(m, "G")) > 0

GhostStepLength(i) ==
    Abs(ghosts'[i].x - ghosts[i].x) + Abs(ghosts'[i].y - ghosts[i].y)

\* C15: a ghost that moves in a tick with its vulnerable flag set advances by
\* strictly less than GHOST_SPEED, the distance a ghost that is not vulnerable
\* advances in a tick.
C15_VulnerableSlower ==
    [][IsTick /\ Len(ghosts') = Len(ghosts) =>
          \A i \in 1 .. Len(ghosts) :
              (ghosts'[i].is_vulnerable /\ GhostStepLength(i) > 0)
                  => GhostStepLength(i) < GHOST_SPEED]_vars

(***************************************************************************)
(* Lives                                                                   *)
(***************************************************************************)
\* C16: in every reachable state 0 <= lives <= 3, and the game is over (phase
\* GameOverMenu) exactly when lives is 0.
C16_LivesInRange ==
    /\ 0 <= lives
    /\ lives <= START_LIVES
    /\ game_over <=> lives = 0

\* C17: a tick decrements lives by at most 1, however many ghosts touch the
\* player and although both collision passes run.
C17_OneLifePerTick ==
    [][IsTick => lives' >= lives - 1]_vars

(***************************************************************************)
(* Ghost timers and spawn points                                           *)
(***************************************************************************)
\* C19: every ghost's confused_timer and respawn_timer is at least 0 in every
\* reachable state, whatever the frame times.
C19_TimerFloor ==
    \A i \in 1 .. Len(ghosts) :
        /\ ghosts[i].confused_timer >= 0
        /\ ghosts[i].respawn_timer >= 0

\* The origin and the centred position of the 'G' cells of map m
GhostMarkers(m) ==
    LET gs == CellsOf(m, "G")
    IN  {<<gs[i][1] * CELL_SIZE, gs[i][2] * CELL_SIZE>> : i \in 1 .. Len(gs)}
            \cup {<<gs[i][1] * CELL_SIZE + GhostOffset, gs[i][2] * CELL_SIZE + GhostOffset>> :
                      i \in 1 .. Len(gs)}

\* C20: when the map has at least one 'G' cell, every ghost built by
\* MainState::new has a 'G' cell as its spawn point; the three ghosts at the
\* computed centre of the map are built only for a map without 'G'.
C20_MapSpawnsAuthoritative ==
    (built /\ ev.op = "init" /\ HasGhostSpawn(maze)) =>
        \A i \in 1 .. Len(ghosts) : ghosts[i].spawn_position \in GhostMarkers(maze)

\* C18: a tick in which lives is decremented and stays above 0 ends with the
\* player at its spawn position, current and requested direction None, and
\* every ghost at its own spawn point.
C18_LifeLossResets ==
    [][(IsTick /\ lives' < lives /\ lives' > 0) =>
          /\ <<pacman_x', pacman_y'>> = PACMAN_START
          /\ current_direction' = "None"
          /\ requested_direction' = "None"
          /\ \A i \in 1 .. Len(ghosts') :
                 <<ghosts'[i].x, ghosts'[i].y>> = ghosts'[i].spawn_position]_vars

(***************************************************************************)
(* Reset against initialization                                            *)
(***************************************************************************)
\* The spawn point and the starting position of every ghost of a list
GhostPlaces(gs) == [i \in 1 .. Len(gs) |-> <<gs[i].spawn_position, <<gs[i].x, gs[i].y>> >>]

\* C21: after reset_game the number of ghosts and the spawn point and starting
\* position of each ghost are those of the state built by MainState::new from
\* the same map.
C21_ResetRebuildsGhosts ==
    (ev.op = "reset") =>
        /\ Len(ghosts) = Len(NewGhosts(MAP_STR))
        /\ GhostPlaces(ghosts) = GhostPlaces(NewGhosts(MAP_STR))

(***************************************************************************)
(* Ghost direction selection                                               *)
(***************************************************************************)
\* The squared distance to its target of ghost g after a step of one pixel
StepDist2(g, dir) ==
    Dist2(g.x + Delta(dir, UNIT)[1], g.y + Delta(dir, UNIT)[2], g.target_x, g.target_y)

\* The first, in the order of valid, of the directions nearest to the target
FirstNearest(g, valid) ==
    valid[MinOf({i \in 1 .. Len(valid) :
                    \A j \in 1 .. Len(valid) :
                        StepDist2(g, valid[i]) <= StepDist2(g, valid[j])})]

SeqRange(q) == {q[i] : i \in 1 .. Len(q)}

\* C22: a ghost that is not confused and has a valid direction takes the
\* valid direction whose unit step is nearest to its target, the first in the
\* order Up, Down, Left, Right when several are equally near; a confused ghost
\* takes one of the valid directions.
C22_DirectionSelection ==
    WasTick =>
        \A i \in 1 .. Len(ev.hunted) :
            LET g == ev.hunted[i]
                valid == ValidDirections(g)
            IN  Len(valid) > 0 =>
                    IF g.confused_timer > 0
                    THEN ev.stepped[i].direction \in SeqRange(valid)
                    ELSE ev.stepped[i].direction = FirstNearest(g, valid)

\* Every one of the four candidate positions of ghost g overlaps a wall
AllBlocked(g) ==
    \A dir \in SeqRange(Directions) :
        HitsWall(g.x + Delta(dir, GhostProbeSpeed(g))[1],
                 g.y + Delta(dir, GhostProbeSpeed(g))[2], GHOST_SIZE)

\* C23: when all four candidate positions of a ghost overlap a wall,
\* Ghost::update leaves the ghost's direction and position as they were.
C23_GhostStall ==
    WasTick =>
        \A i \in 1 .. Len(ev.hunted) :
            AllBlocked(ev.hunted[i]) =>
                /\ ev.stepped[i].direction = ev.hunted[i].direction
                /\ ev.stepped[i].x = ev.hunted[i].x
                /\ ev.stepped[i].y = ev.hunted[i].y

\* A ghost with no way out went through Ghost::update and stayed, next to a
\* ghost that did move.
C23_Witness ==
    /\ WasTick
    /\ \E i \in 1 .. Len(ev.hunted) :
           /\ AllBlocked(ev.hunted[i])
           /\ ev.stepped[i].direction = "Left"
           /\ <<ev.stepped[i].x, ev.stepped[i].y>> = <<ev.hunted[i].x, ev.hunted[i].y>>
    /\ \E k \in 1 .. Len(ev.hunted) :
           <<ev.stepped[k].x, ev.stepped[k].y>> # <<ev.hunted[k].x, ev.hunted[k].y>>

(***************************************************************************)
(* Remembered requests                                                     *)
(***************************************************************************)
\* The cell next to the player's cell in direction dir is a wall
NeighbourIsWall(dir) ==
    IsWall(Round(pacman_x - PacmanOffset, CELL_SIZE) + Delta(dir, 1)[1],
           Round(pacman_y - PacmanOffset, CELL_SIZE) + Delta(dir, 1)[2])

\* C24: a direction requested in mid-cell stays in requested_direction as long
\* as no other request, life loss, game over or reset occurs, and a tick
\* that begins with the player grid-centred and the neighbouring cell in that
\* direction not a wall, and in which no life is lost, ends with
\* current_direction equal to it.
C24_RequestRemembered ==
    /\ [](asked # "None" => requested_direction = asked)
    /\ [][(/\ IsTick
           /\ asked # "None"
           /\ is_at_grid_center(Cur)
           /\ ~NeighbourIsWall(asked)
           /\ ev'.lost = 0)
          => current_direction' = asked]_vars

\* Right was requested in mid-cell on the way up, and the first tick that
\* began at a cell centre with the cell to the right open made the turn.
C24_Witness ==
    /\ WasTick
    /\ asked = "Right"
    /\ ev.began.centered
    /\ ev.began.current = "Up"
    /\ ev.began.requested = "Right"
    /\ ev.lost = 0
    /\ current_direction = "Right"
    /\ requested_direction = "Right"

(***************************************************************************)
(* Snapping                                                                *)
(***************************************************************************)
\* The cell-centred coordinates k * CELL_SIZE + (CELL_SIZE - PACMAN_SIZE) / 2
\* around the coordinates of the map
CentredCoordinates == {k * CELL_SIZE + PacmanOffset : k \in -1 .. 21}

\* c is the cell-centred coordinate closest to v, or one of the two closest
NearestCentred(c, v) ==
    /\ c \in CentredCoordinates
    /\ \A d \in CentredCoordinates : Abs(c - v) <= Abs(d - v)

DotsRemoved == MAP_DOTS \ dots

\* C26: in every reachable state the score is 10 times the number of dots
\* removed since MainState::new or the last reset_game plus 200 times the
\* number of captures since then, and no step but a reset lowers the score.
C26_ScoreAccounting ==
    /\ [](/\ dots \subseteq MAP_DOTS
          /\ score = 10 * Cardinality(DotsRemoved) + 200 * caught)
    /\ [][ev'.op # "reset" => score' >= score]_vars

\* Dots were collected, a power pellet too, and a tick captured a ghost.
C26_Witness ==
    /\ WasTick
    /\ ev.captures # <<>>
    /\ caught > 0
    /\ DotsRemoved # {}
    /\ Cardinality(power_pellets) < 4
    /\ score = 10 * Cardinality(DotsRemoved) + 200 * caught

====
